---- MODULE Spec2Model ----
(***************************************************************************)
(* Model of the squircle drawer (src/src/main.rs): the Slider widget, the  *)
(* quarter-curve generation, the quadrant renderer, and the frame loop     *)
(* with its dirty flag.                                                    *)
(*                                                                         *)
(* Numbers.  Every f32 of the program is a fixed-point integer counting    *)
(* units of 1/VQ (a pixel coordinate 20.0 is 20 * VQ units, the slider     *)
(* bound 0.1 is VQ / 10 units).  With pointer positions on whole pixels    *)
(* the slider arithmetic ratio * (max - min) + min is exact in these       *)
(* units.  Quantities of the unit interval (sines, cosines, their powers)  *)
(* carry UQ units per 1.0.                                                  *)
(*                                                                         *)
(* EPSILON.  f32 pointer positions near the left end of a track            *)
(* (x = 20.0) are 2^-19 pixel apart and f32::EPSILON is 2^-23: EPSILON is  *)
(* 1/16 of the smallest pointer step.  The model's smallest pointer step   *)
(* is one pixel, so its EPSILON is 1/16 = VQ / 16 units.  This keeps the   *)
(* order the program has: one pointer step moves the roundedness slider    *)
(* by 11.9 / 200 of a step (below EPSILON), every other slider by more.    *)
(***************************************************************************)
EXTENDS Integers, Sequences, FiniteSets, TLC

VARIABLES
    sliders,                      \* the six Slider structs of main, by variable name
    vertex_buffer,                \* Vec<Vec2>: the quarter of the curve
    rotation_matrix_trig_values,  \* (sin, cos), in UQ units
    vertices_need_recalculation,  \* the dirty flag
    fill,                         \* fill mode
    steps,                        \* usize kept beside the steps slider
    rect_edges_closed,            \* Rect::contains counts the right/bottom edge in (library build)
    frame,                        \* history: loop iterations completed
    polled,                       \* history: per slider, what update() did in the last frame
    regenerations,                \* history: runs of the regeneration block in the last frame
    slider,                       \* SliderSpec, NewSpec: the Slider update() is applied to
    call,                         \* SliderSpec: the last update() call (input, state before, result)
    key_pressed                   \* DrawSpec: history: is_key_pressed(Space) in the last frame

vars == <<sliders, vertex_buffer, rotation_matrix_trig_values, vertices_need_recalculation, fill, steps, rect_edges_closed, frame, polled, regenerations, slider, call, key_pressed>>

frameVars == <<sliders, vertex_buffer, rotation_matrix_trig_values, vertices_need_recalculation, fill, steps, frame, polled, regenerations, key_pressed>>

-----------------------------------------------------------------------------
(* Fixed-point numbers *)

\* units per 1.0 of an f32 value
VQ == 2000

\* units per 1.0 of a quantity of the unit interval
UQ == 16384

\* the f32 with the whole value k
F(k) == k * VQ

\* std::f32::EPSILON, as a value in units (see the header)
EPSILON == 125

Abs(x) == IF x < 0 THEN -x ELSE x

\* floor(a * b / q) for a >= 0, computed without a wide product
MulDiv(a, b, q) == (a \div q) * b + (a % q) * (b \div q) + ((a % q) * (b % q)) \div q

\* f32 product and quotient of two values in VQ units
fmul(a, b) == IF a < 0 THEN -MulDiv(-a, b, VQ) ELSE MulDiv(a, b, VQ)

fdiv(a, b) == IF a < 0 THEN -MulDiv(-a, VQ, b) ELSE MulDiv(a, VQ, b)

\* f32::clamp
clamp(x, lo, hi) == IF x < lo THEN lo ELSE IF x > hi THEN hi ELSE x

\* `as usize`: truncation toward zero, negative values saturate to 0
AsUsize(v) == IF v < 0 THEN 0 ELSE v \div VQ

-----------------------------------------------------------------------------
(* Slider *)

\* Rect::new(x, y, 200.0, 20.0) of Slider::new
RectW == 200

RectH == 20

\* the x every slider is constructed at
RectX == 20

\* the vertical margin of the interaction area
Margin == 10

\* Slider::new
Slider_new(label, value, min, max, x, y) == [label |-> label, value |-> value, min |-> min, max |-> max, rect |-> [x |-> x, y |-> y, w |-> F(RectW), h |-> F(RectH)]]

\* Rect::contains of the library: left and top edges count in, right and
\* bottom edges count in only in a build with closed edges
Rect_contains(r, p, closed) ==
    /\ p[1] >= r.x
    /\ p[2] >= r.y
    /\ IF closed THEN p[1] <= r.x + r.w ELSE p[1] < r.x + r.w
    /\ IF closed THEN p[2] <= r.y + r.h ELSE p[2] < r.y + r.h

\* interaction_area with a margin of twice the size (mutant)
interaction_area_wide(self) == [x |-> self.rect.x, y |-> self.rect.y - F(2 * Margin), w |-> self.rect.w, h |-> self.rect.h + F(4 * Margin)]

\* the interaction area of update(): the rect grown by the margin above and below
interaction_area(self) == [x |-> self.rect.x, y |-> self.rect.y - F(Margin), w |-> self.rect.w, h |-> self.rect.h + F(2 * Margin)]

\* Slider_update scaling the ratio by max instead of max - min (mutant)
Slider_update_scaled_by_max(self, m_vec, down, closed) ==
    IF down /\ Rect_contains(interaction_area(self), m_vec, closed)
    THEN LET value == fmul(clamp(fdiv(m_vec[1] - self.rect.x, self.rect.w), 0, F(1)), self.max) + self.min
         IN [slider |-> [self EXCEPT !.value = value], changed |-> Abs(value - self.value) > EPSILON, called |-> TRUE]
    ELSE [slider |-> self, changed |-> FALSE, called |-> TRUE]

\* Slider_update moving the value by the ratio from where it was (mutant)
Slider_update_relative(self, m_vec, down, closed) ==
    IF down /\ Rect_contains(interaction_area(self), m_vec, closed)
    THEN LET value == clamp(fmul(clamp(fdiv(m_vec[1] - self.rect.x, self.rect.w), 0, F(1)), self.max - self.min) + self.value, self.min, self.max)
         IN [slider |-> [self EXCEPT !.value = value], changed |-> Abs(value - self.value) > EPSILON, called |-> TRUE]
    ELSE [slider |-> self, changed |-> FALSE, called |-> TRUE]

\* Slider_update comparing without abs() (mutant)
Slider_update_signed(self, m_vec, down, closed) ==
    IF down /\ Rect_contains(interaction_area(self), m_vec, closed)
    THEN LET value == fmul(clamp(fdiv(m_vec[1] - self.rect.x, self.rect.w), 0, F(1)), self.max - self.min) + self.min
         IN [slider |-> [self EXCEPT !.value = value], changed |-> value - self.value > EPSILON, called |-> TRUE]
    ELSE [slider |-> self, changed |-> FALSE, called |-> TRUE]

\* Slider_update testing only the pointer's row against the interaction
\* area, so that the clamp acts left and right of the track (mutant)
Slider_update_any_column(self, m_vec, down, closed) ==
    IF down /\ Rect_contains(interaction_area(self), <<self.rect.x, m_vec[2]>>, closed)
    THEN LET value == fmul(clamp(fdiv(m_vec[1] - self.rect.x, self.rect.w), 0, F(1)), self.max - self.min) + self.min
         IN [slider |-> [self EXCEPT !.value = value], changed |-> Abs(value - self.value) > EPSILON, called |-> TRUE]
    ELSE [slider |-> self, changed |-> FALSE, called |-> TRUE]

\* Slider::update with mouse_position() = m_vec and
\* is_mouse_button_down(Left) = down: the slider after the call and the
\* value returned
Slider_update(self, m_vec, down, closed) ==
    IF down /\ Rect_contains(interaction_area(self), m_vec, closed)
    THEN LET old_value == self.value
             ratio == fdiv(m_vec[1] - self.rect.x, self.rect.w)
             clamped_ratio == clamp(ratio, 0, F(1))
             value == fmul(clamped_ratio, self.max - self.min) + self.min
         IN [slider |-> [self EXCEPT !.value = value], changed |-> Abs(value - old_value) > EPSILON, called |-> TRUE]
    ELSE [slider |-> self, changed |-> FALSE, called |-> TRUE]

-----------------------------------------------------------------------------
(* sin_cos and powf, in fixed point *)

\* std::f64::consts::FRAC_PI_2, in UQ units
FRAC_PI_2 == 25736

\* std::f32::consts::PI, in VQ units
PI == 6283

\* ln 2, in UQ units (used by powf)
LN2 == 11357

\* the alternating power series of sine and cosine: term is the last term
\* added, t2 the squared angle, j the next factorial factor
RECURSIVE TrigSeries(_, _, _, _, _)
TrigSeries(term, t2, j, sign, acc) ==
    IF term = 0 \/ j > 16
    THEN acc
    ELSE LET nxt == (term * t2) \div (UQ * j * (j + 1))
         IN TrigSeries(nxt, t2, j + 2, -sign, acc + sign * nxt)

\* sine and cosine of an angle t in [0, pi/2] (UQ units), as <<sin, cos>>
sin_cos_quarter(t) ==
    LET t2 == (t * t) \div UQ
    IN <<TrigSeries(t, t2, 2, -1, t), TrigSeries(UQ, t2, 1, -1, UQ)>>

\* {f32,f64}::sin_cos of an angle t in [0, pi] (UQ units), as <<sin, cos>>
sin_cos(t) ==
    IF t <= FRAC_PI_2
    THEN sin_cos_quarter(t)
    ELSE LET m == sin_cos_quarter(clamp(2 * FRAC_PI_2 - t, 0, FRAC_PI_2))
         IN <<m[1], -m[2]>>

\* c * 2^k in [UQ, 2 UQ), with k, for 0 < c <= UQ
RECURSIVE Normalise(_, _)
Normalise(c, k) == IF c >= UQ THEN <<c, k>> ELSE Normalise(2 * c, k + 1)

\* the fraction bits of log2 m for m in [UQ, 2 UQ), by repeated squaring
RECURSIVE Log2Frac(_, _, _)
Log2Frac(m, bit, acc) ==
    IF bit = 0
    THEN acc
    ELSE LET m2 == (m * m) \div UQ
         IN IF m2 >= 2 * UQ
            THEN Log2Frac(m2 \div 2, bit \div 2, acc + bit)
            ELSE Log2Frac(m2, bit \div 2, acc)

\* -log2 c for 0 < c <= UQ, in UQ units
NegLog2(c) ==
    LET nk == Normalise(c, 0)
    IN nk[2] * UQ - Log2Frac(nk[1], UQ \div 2, 0)

\* the power series of e^z
RECURSIVE ExpSeries(_, _, _, _)
ExpSeries(term, z, k, acc) ==
    IF term = 0 \/ k > 12
    THEN acc
    ELSE LET nxt == (term * z) \div (UQ * k)
         IN ExpSeries(nxt, z, k + 1, acc + nxt)

RECURSIVE Pow2(_)
Pow2(k) == IF k = 0 THEN 1 ELSE 2 * Pow2(k - 1)

\* 2^(-y) for y >= 0, both in UQ units
Exp2Neg(y) ==
    LET q == y \div UQ
        g == UQ - (y % UQ)
        z == (g * LN2) \div UQ
    IN IF q + 1 > 20 THEN 0 ELSE ExpSeries(UQ, z, 1, UQ) \div Pow2(q + 1)

\* f32::powf(c, exponent) for a base c of the unit interval (UQ units) and
\* an exponent > 0 (VQ units); the result in UQ units
powf(c, exponent) ==
    IF c <= 0 THEN 0
    ELSE IF c >= UQ THEN UQ
    ELSE Exp2Neg(MulDiv(NegLog2(c), exponent, VQ))

-----------------------------------------------------------------------------
(* The regeneration block of main: one quadrant of the curve *)

\* iteration i of `for i in 1..steps` before the scaling by the semi-axes:
\* <<cos(t)^exponent, sin(t)^exponent>>, in UQ units
unit_vertex(n, i, steps_) ==
    LET t == (FRAC_PI_2 * i) \div steps_
        sc == sin_cos(t)
        exponent == fdiv(F(2), n)
    IN <<powf(sc[2], exponent), powf(sc[1], exponent)>>

\* unit_curve with the loop running to steps inclusive (mutant)
unit_curve_inclusive(n, steps_) == <<>> \o [i \in 1..steps_ |-> unit_vertex(n, i, steps_)]

\* the sequence of them, for i in 1..steps
unit_curve(n, steps_) == <<>> \o [i \in 1..(steps_ - 1) |-> unit_vertex(n, i, steps_)]

\* vertex_buffer after clear(), the push of (r_a, 0), the loop and the push
\* of (0, r_b); curve is unit_curve(n, steps)
generate_from(r_a, r_b, curve) ==
    <<<<r_a, 0>>>> \o [i \in 1..Len(curve) |-> <<MulDiv(r_a, curve[i][1], UQ), MulDiv(r_b, curve[i][2], UQ)>>] \o <<<<0, r_b>>>>

-----------------------------------------------------------------------------
(* main: construction *)

\* screen_width() of the window the program starts in
ScreenW == 800

SliderNames == {"r_a_slider", "r_b_slider", "n_slider", "thickness_slider", "steps_slider", "rotation_slider"}

\* the sliders that feed the dirty flag, in the order of the || chain
GeometrySliders == <<"r_a_slider", "r_b_slider", "n_slider", "steps_slider">>

\* InitSliders with the steps slider starting its range at 0 (mutant)
InitSliders_steps_from_zero ==
    [r_a_slider |-> Slider_new("Semi-major axis (r_a)", fdiv(F(ScreenW), F(4)), F(10), F(ScreenW), F(RectX), F(40)),
     r_b_slider |-> Slider_new("Semi-minor axis (r_b)", fdiv(F(ScreenW), F(4)), F(10), F(ScreenW), F(RectX), F(80)),
     n_slider |-> Slider_new("Roundedness (n)", F(4), F(1) \div 10, F(12), F(RectX), F(120)),
     thickness_slider |-> Slider_new("Thickness", F(2), F(1) \div 10, F(40), F(RectX), F(160)),
     steps_slider |-> Slider_new("Steps", F(25), F(0), F(50), F(RectX), F(200)),
     rotation_slider |-> Slider_new("Rotation", F(0), F(0), F(180), F(RectX), F(240))]

\* the six Slider::new calls of main
InitSliders ==
    [r_a_slider |-> Slider_new("Semi-major axis (r_a)", fdiv(F(ScreenW), F(4)), F(10), F(ScreenW), F(RectX), F(40)),
     r_b_slider |-> Slider_new("Semi-minor axis (r_b)", fdiv(F(ScreenW), F(4)), F(10), F(ScreenW), F(RectX), F(80)),
     n_slider |-> Slider_new("Roundedness (n)", F(4), F(1) \div 10, F(12), F(RectX), F(120)),
     thickness_slider |-> Slider_new("Thickness", F(2), F(1) \div 10, F(40), F(RectX), F(160)),
     steps_slider |-> Slider_new("Steps", F(25), F(1), F(50), F(RectX), F(200)),
     rotation_slider |-> Slider_new("Rotation", F(0), F(0), F(180), F(RectX), F(240))]

\* `let mut steps: usize = 25`
InitSteps == 25

\* what update() did to a slider in a frame that never called it
NotCalled(self) == [slider |-> self, changed |-> FALSE, called |-> FALSE]

NoPoll == [s \in SliderNames |-> [called |-> FALSE, changed |-> FALSE]]

NoCall == [m_vec |-> <<0, 0>>, down |-> FALSE, before |-> InitSliders.r_a_slider, changed |-> FALSE, made |-> FALSE]

-----------------------------------------------------------------------------
(* Inputs *)

\* loop iterations modelled
MaxFrames == 3

\* pointer columns on a track: its XDiv equal parts, and one pointer step
\* from its left end
XDiv == 2

TrackXs == {F(RectX + (k * RectW) \div XDiv) : k \in 0..XDiv} \cup {F(RectX + 1)}

\* pointer columns: on a track, left of it, right of it
PointerXs == TrackXs \cup {F(RectX - Margin), F(RectX + RectW + Margin)}

\* pointer columns of the loop observed with its drawing: the left end and
\* the third quarter of a track
DrawXs == {F(RectX), F(RectX + (3 * RectW) \div 4)}

\* pointer rows of the frame loop: the track of every slider, and a row on no slider
PointerYs == {F(0)} \cup {InitSliders[s].rect.y : s \in SliderNames}

\* the roundedness values and step counts the pointer columns can set,
\* and their unit curves, evaluated once
CachedN == {Slider_update(InitSliders.n_slider, <<x, InitSliders.n_slider.rect.y>>, TRUE, TRUE).slider.value : x \in PointerXs \cup DrawXs}

CachedSteps == {InitSteps} \cup {AsUsize(Slider_update(InitSliders.steps_slider, <<x, InitSliders.steps_slider.rect.y>>, TRUE, TRUE).slider.value) : x \in PointerXs \cup DrawXs}

unit_curve_cache == [p \in CachedN \X CachedSteps |-> unit_curve(p[1], p[2])] @@ <<>>

\* generate with the last vertex left to the power formula (mutant)
generate_last_by_formula(r_a, r_b, n, steps_) ==
    <<<<r_a, 0>>>> \o [i \in 1..steps_ |-> <<MulDiv(r_a, unit_vertex(n, i, steps_)[1], UQ), MulDiv(r_b, unit_vertex(n, i, steps_)[2], UQ)>>]

\* the regeneration block of main for the values r_a, r_b, n and the step count
generate(r_a, r_b, n, steps_) ==
    generate_from(r_a, r_b, IF <<n, steps_>> \in DOMAIN unit_curve_cache THEN unit_curve_cache[<<n, steps_>>] ELSE unit_curve(n, steps_))

-----------------------------------------------------------------------------
(* main: one iteration of the loop *)

\* the rotation block with the pair stored as (cos, sin) (mutant)
rotation_trig_swapped(rotation_degrees) ==
    <<sin_cos(MulDiv(fdiv(fmul(rotation_degrees, PI), F(180)), UQ, VQ))[2], sin_cos(MulDiv(fdiv(fmul(rotation_degrees, PI), F(180)), UQ, VQ))[1]>>

\* the rotation block: (sin, cos) of the rotation slider's value in degrees
rotation_trig(rotation_degrees) ==
    LET rotation_radians == fdiv(fmul(rotation_degrees, PI), F(180))
    IN sin_cos(MulDiv(rotation_radians, UQ, VQ))

\* the input block of the loop: the || chain calls update() on a geometry
\* slider only while the flag and every earlier result are false; the
\* thickness and rotation sliders are always updated.  Gives, per slider,
\* the result of its update() (or NotCalled).
poll_sliders(ss, stale, m_vec, down, closed) ==
    LET ra == IF stale THEN NotCalled(ss.r_a_slider) ELSE Slider_update(ss.r_a_slider, m_vec, down, closed)
        rb == IF stale \/ ra.changed THEN NotCalled(ss.r_b_slider) ELSE Slider_update(ss.r_b_slider, m_vec, down, closed)
        n == IF stale \/ ra.changed \/ rb.changed THEN NotCalled(ss.n_slider) ELSE Slider_update(ss.n_slider, m_vec, down, closed)
        st == IF stale \/ ra.changed \/ rb.changed \/ n.changed THEN NotCalled(ss.steps_slider) ELSE Slider_update(ss.steps_slider, m_vec, down, closed)
    IN [r_a_slider |-> ra, r_b_slider |-> rb, n_slider |-> n, steps_slider |-> st,
        thickness_slider |-> Slider_update(ss.thickness_slider, m_vec, down, closed),
        rotation_slider |-> Slider_update(ss.rotation_slider, m_vec, down, closed)]

\* needs_recalculation fed by the thickness slider as well (mutant)
needs_recalculation_any(stale, res) == stale \/ res.thickness_slider.changed \/ \E i \in 1..Len(GeometrySliders) : res[GeometrySliders[i]].changed

\* the flag after the input block
needs_recalculation(stale, res) == stale \/ \E i \in 1..Len(GeometrySliders) : res[GeometrySliders[i]].changed

\* the key block: a press of the space key turns fill on whatever it was (mutant)
toggle_fill_on(fill_, key) == fill_ \/ key

\* the key block: a press of the space key inverts fill
toggle_fill(fill_, key) == IF key THEN ~fill_ ELSE fill_

\* One iteration of the loop of main, from the input block to next_frame():
\* mouse_position() = m_vec, is_mouse_button_down(Left) = down,
\* is_key_pressed(Space) = key.
Frame(m_vec, down, key) ==
    /\ frame < MaxFrames
    /\ \E res \in {poll_sliders(sliders, vertices_need_recalculation, m_vec, down, rect_edges_closed)} :
       \E ss \in {[s \in SliderNames |-> res[s].slider]} :
       \E stale \in {needs_recalculation(vertices_need_recalculation, res)} :
       \E new_steps \in {AsUsize(ss.steps_slider.value)} :
          /\ sliders' = ss
          /\ rotation_matrix_trig_values' = IF res.rotation_slider.changed THEN rotation_trig(ss.rotation_slider.value) ELSE rotation_matrix_trig_values
          /\ fill' = toggle_fill(fill, key)
          /\ steps' = IF stale THEN new_steps ELSE steps
          /\ vertex_buffer' = IF stale THEN generate(ss.r_a_slider.value, ss.r_b_slider.value, ss.n_slider.value, new_steps) ELSE vertex_buffer
          /\ vertices_need_recalculation' = FALSE
          /\ regenerations' = IF stale THEN 1 ELSE 0
          /\ polled' = [s \in SliderNames |-> [called |-> res[s].called, changed |-> res[s].changed]]
    /\ frame' = frame + 1
    /\ UNCHANGED <<rect_edges_closed, slider, call>>

-----------------------------------------------------------------------------
(* Specifications *)

FrameInit ==
    /\ sliders = InitSliders
    /\ vertex_buffer = <<>>
    /\ rotation_matrix_trig_values = <<0, UQ>>
    /\ vertices_need_recalculation = TRUE
    /\ fill = FALSE
    /\ steps = InitSteps
    /\ frame = 0
    /\ polled = NoPoll
    /\ regenerations = 0
    /\ key_pressed = FALSE

Init ==
    /\ FrameInit
    /\ rect_edges_closed \in BOOLEAN
    /\ slider = InitSliders.r_a_slider
    /\ call = NoCall

Next == \E x \in TrackXs, y \in PointerYs, down \in BOOLEAN, key \in BOOLEAN : Frame(<<x, y>>, down, key) /\ UNCHANGED key_pressed

Spec == Init /\ [][Next]_vars

-----------------------------------------------------------------------------
(* render_quadrants and the drawing block of main *)

\* screen_height() of the window
ScreenH == 600

\* the table with its last two entries exchanged (mutant)
quadrants_exchanged == <<<<1, 1>>, <<-1, 1>>, <<1, -1>>, <<-1, -1>>>>

\* the sign multipliers of the four quadrants, in table order
quadrants == <<<<1, 1>>, <<-1, 1>>, <<-1, -1>>, <<1, -1>>>>

\* centre of the window
centre == <<F(ScreenW) \div 2, F(ScreenH) \div 2>>

\* product of a sine or cosine (UQ units, signed) and a coordinate
trig_mul(t, x) == IF (t < 0) = (x < 0) THEN MulDiv(Abs(x), Abs(t), UQ) ELSE -MulDiv(Abs(x), Abs(t), UQ)

\* a buffer vertex reflected by the signs q, rotated by m = (sin, cos),
\* offset by c
place(v, q, m, c) ==
    LET x == q[1] * v[1]
        y == q[2] * v[2]
    IN <<trig_mul(m[2], x) - trig_mul(m[1], y) + c[1], trig_mul(m[1], x) + trig_mul(m[2], y) + c[2]>>

\* the points one pass of the outer loop computes, in the order it computes
\* them: the point of buffer[0] before the inner loop, then p_curr of
\* i = 1..steps (sequence index i + 1 holds the point of buffer[i])
quadrant_points(c, steps_, buffer, q, m) == <<>> \o [j \in 1..(steps_ + 1) |-> place(buffer[j], q, m, c)]

\* the inner loop with p_prev never reassigned (mutant)
quadrant_calls_anchored(points) == <<>> \o [i \in 1..(Len(points) - 1) |-> <<points[1], points[i + 1]>>]

\* the inner loop handing draw_callback (p_curr, p_prev) (mutant)
quadrant_calls_backwards(points) == <<>> \o [i \in 1..(Len(points) - 1) |-> <<points[i + 1], points[i]>>]

\* the inner loop without its last pass (mutant)
quadrant_calls_short(points) == <<>> \o [i \in 1..(Len(points) - 2) |-> <<points[i], points[i + 1]>>]

\* the inner loop: pass i hands draw_callback p_prev, which is the point of
\* the pass before it (p_prev = p_curr), and p_curr
quadrant_calls(points) == <<>> \o [i \in 1..(Len(points) - 1) |-> <<points[i], points[i + 1]>>]

\* the outer loop of render_quadrants from table entry k on
RECURSIVE render_from(_, _, _, _, _, _, _)
render_from(k, c, steps_, buffer, table, m, calls) ==
    IF k > Len(table) THEN calls
    ELSE render_from(k + 1, c, steps_, buffer, table, m, calls \o quadrant_calls(quadrant_points(c, steps_, buffer, table[k], m)))

\* render_quadrants: the sequence of (prev, curr) pairs draw_callback is
\* invoked with
render_quadrants(c, steps_, buffer, table, m) == render_from(1, c, steps_, buffer, table, m, <<>>)

\* the drawing calls the two closures of main make for one invocation
fill_callback(call_) == [op |-> "draw_triangle", v1 |-> centre, v2 |-> call_[1], v3 |-> call_[2]]

outline_callback(call_, thickness) == [op |-> "draw_line", v1 |-> call_[1], v2 |-> call_[2], thickness |-> thickness]

\* render_quadrants handed the fill closure, and handed the outline closure
render_filled(calls) == <<>> \o [i \in 1..Len(calls) |-> fill_callback(calls[i])]

render_outline(calls, thickness) == <<>> \o [i \in 1..Len(calls) |-> outline_callback(calls[i], thickness)]

\* the if fill / else block of main: the drawing calls of one frame's curve
draw_shape(fill_, steps_, buffer, m, thickness) ==
    IF fill_
    THEN render_filled(render_quadrants(centre, steps_, buffer, quadrants, m))
    ELSE render_outline(render_quadrants(centre, steps_, buffer, quadrants, m), thickness)

-----------------------------------------------------------------------------
(* Slider::update on its own: any slider of main, any sequence of calls *)

\* pointer rows around a slider: above its interaction area, on the area's
\* top edge, on the track, on the area's bottom edge, below the area
SliderRows(self) ==
    {self.rect.y - F(Margin + 1), self.rect.y - F(Margin), self.rect.y,
     self.rect.y + self.rect.h + F(Margin), self.rect.y + self.rect.h + F(Margin + 1)}

\* one call of slider.update() with mouse_position() = m_vec and
\* is_mouse_button_down(Left) = down
UpdateCall(m_vec, down) ==
    /\ \E r \in {Slider_update(slider, m_vec, down, rect_edges_closed)} :
          /\ slider' = r.slider
          /\ call' = [m_vec |-> m_vec, down |-> down, before |-> slider, changed |-> r.changed, made |-> TRUE]
    /\ UNCHANGED frameVars
    /\ UNCHANGED rect_edges_closed

SliderInit ==
    /\ FrameInit
    /\ rect_edges_closed \in BOOLEAN
    /\ slider \in {InitSliders[s] : s \in SliderNames}
    /\ call = NoCall

SliderNext == \E x \in PointerXs, y \in SliderRows(slider), down \in BOOLEAN : UpdateCall(<<x, y>>, down)

SliderSpec == SliderInit /\ [][SliderNext]_vars

-----------------------------------------------------------------------------
(* Slider::new on its own: any range, then any sequence of update() calls *)

\* the values Slider::new is given for value, min and max
NewValues == {F(0), F(1), F(2)}

\* Slider::new stores what it is given and returns the slider: it has no
\* check and no failing path
NewInit ==
    /\ FrameInit
    /\ rect_edges_closed \in BOOLEAN
    /\ slider \in {Slider_new("Slider", value, min, max, F(RectX), F(40)) : value \in NewValues, min \in NewValues, max \in NewValues}
    /\ call = NoCall

NewSpec == NewInit /\ [][SliderNext]_vars

-----------------------------------------------------------------------------
(* The loop of main with what it draws: fewer pointer columns *)

\* pointer rows: those of the frame loop, and the row on which the
\* interaction areas of the thickness and the steps slider meet
DrawYs == PointerYs \cup {InitSliders.steps_slider.rect.y - F(Margin)}

DrawNext == \E x \in DrawXs, y \in DrawYs, down \in BOOLEAN, key \in BOOLEAN : Frame(<<x, y>>, down, key) /\ key_pressed' = key

DrawSpec == Init /\ [][DrawNext]_vars

\* the invocations of draw_callback in the render call of the frame just
\* completed: the drawing block runs after the input and regeneration
\* blocks, on the state the frame ends with
render_calls == render_quadrants(centre, steps, vertex_buffer, quadrants, rotation_matrix_trig_values)

\* the (prev, curr) pairs the drawing calls of a curve were made for
drawn_pairs(draws) ==
    <<>> \o [i \in 1..Len(draws) |-> IF draws[i].op = "draw_triangle" THEN <<draws[i].v2, draws[i].v3>> ELSE <<draws[i].v1, draws[i].v2>>]

\* the drawing calls of the curve in the frame just completed
shape_draws == draw_shape(fill, steps, vertex_buffer, rotation_matrix_trig_values, sliders.thickness_slider.value)

\* the order in which the input block names the sliders, and the order in
\* which the drawing block draws them
UpdateOrder == <<"r_a_slider", "r_b_slider", "n_slider", "steps_slider", "thickness_slider", "rotation_slider">>

DrawOrder == <<"r_a_slider", "r_b_slider", "n_slider", "thickness_slider", "steps_slider", "rotation_slider">>

\* the steps of the frame just completed, block by block: the update()
\* calls made and the key poll; the regeneration block if it ran;
\* clear_background; the drawing calls of the curve; the draw() of each
\* slider; the fill text; next_frame().await
input_steps ==
    SelectSeq([i \in 1..Len(UpdateOrder) |-> [step |-> "update", of |-> UpdateOrder[i]]], LAMBDA e : polled[e.of].called)
        \o <<[step |-> "is_key_pressed", of |-> "Space"]>>

regeneration_steps == IF regenerations = 1 THEN <<[step |-> "regenerate", of |-> "vertex_buffer"]>> ELSE <<>>

clear_steps == <<[step |-> "clear_background", of |-> "screen"]>>

curve_steps_of(draws) == <<>> \o [i \in 1..Len(draws) |-> [step |-> "curve_draw", of |-> draws[i].op]]

curve_steps == curve_steps_of(shape_draws)

slider_steps == [i \in 1..Len(DrawOrder) |-> [step |-> "slider_draw", of |-> DrawOrder[i]]]

text_steps == <<[step |-> "draw_text", of |-> "fill"]>>

yield_steps == <<[step |-> "next_frame", of |-> "await"]>>

\* the frame with the sliders drawn before the curve (mutant)
frame_steps_curve_over_sliders ==
    input_steps \o regeneration_steps \o clear_steps \o slider_steps \o curve_steps \o text_steps \o yield_steps

\* the steps of the frame just completed, in the order of the loop body
frame_steps ==
    input_steps \o regeneration_steps \o clear_steps \o curve_steps \o slider_steps \o text_steps \o yield_steps

-----------------------------------------------------------------------------
(* Properties *)

\* the buffer the regeneration block would build from the values the
\* sliders hold now
FreshBuffer ==
    generate(sliders.r_a_slider.value, sliders.r_b_slider.value, sliders.n_slider.value, AsUsize(sliders.steps_slider.value))

\* the interaction region as the specification words it: the bounding
\* rectangle, grown by the margin above and below
InRegion(self, p) ==
    /\ self.rect.x <= p[1]
    /\ self.rect.y - F(Margin) <= p[2]
    /\ IF rect_edges_closed THEN p[1] <= self.rect.x + self.rect.w ELSE p[1] < self.rect.x + self.rect.w
    /\ IF rect_edges_closed THEN p[2] <= self.rect.y + self.rect.h + F(Margin) ELSE p[2] < self.rect.y + self.rect.h + F(Margin)

\* the pointer row lies in the vertical extent of the slider's interaction region
InBand(self, p) == self.rect.y - F(Margin) <= p[2] /\ p[2] < self.rect.y + self.rect.h + F(Margin)

\* C1: in every frame the quarter vertex buffer handed to the renderer is
\* the buffer generation would produce from the values the four geometry
\* sliders hold in that frame, value changes that update() stored without
\* reporting them included.
C1_CacheFreshness == frame > 0 => vertex_buffer = FreshBuffer

\* C2: the buffer is regenerated in a frame exactly when the frame is the
\* first one or a geometry slider reported changed in it, and then exactly
\* once; a frame in which only the thickness or rotation slider changes, or
\* only the fill key is pressed, regenerates nothing.
C2_DirtyFlagMinimality ==
    frame > 0 =>
        regenerations = (IF frame = 1 \/ \E i \in 1..Len(GeometrySliders) : polled[GeometrySliders[i]].changed THEN 1 ELSE 0)

\* a later frame in which the thickness or rotation slider reported a change
\* and nothing was regenerated
C2_Witness ==
    /\ frame > 1
    /\ polled.thickness_slider.changed \/ polled.rotation_slider.changed
    /\ regenerations = 0

\* C3: after any sequence of update() calls, min <= value <= max.
C3_SliderRange == slider.min <= slider.value /\ slider.value <= slider.max

\* a call moved the value onto the upper end of the range
C3_Witness == call.made /\ slider.value # call.before.value /\ slider.value = slider.max

C5_PointerMapping ==
    (call.made /\ call.down /\ InRegion(call.before, call.m_vec)) =>
        (slider.value - slider.min) * (slider.rect.w \div VQ) = ((call.m_vec[1] - slider.rect.x) \div VQ) * (slider.max - slider.min)

\* a held pointer half way along the track moved the value to the middle of the range
C5_Witness ==
    /\ call.made /\ call.down /\ InRegion(call.before, call.m_vec)
    /\ 2 * (call.m_vec[1] - slider.rect.x) = slider.rect.w
    /\ 2 * slider.value = slider.min + slider.max
    /\ call.before.value # slider.value

\* C6: with the button not held, or the pointer outside the interaction
\* region, update() leaves the slider as it was and returns false.
C6_SliderNoOp ==
    (call.made /\ (~call.down \/ ~InRegion(call.before, call.m_vec))) =>
        slider = call.before /\ ~call.changed

\* a held pointer over the track, one step above the interaction region,
\* after an earlier call had moved the value
C6_Witness ==
    /\ call.made /\ call.down
    /\ call.m_vec[1] > slider.rect.x /\ call.m_vec[1] < slider.rect.x + slider.rect.w
    /\ call.m_vec[2] = slider.rect.y - F(Margin + 1)
    /\ \E s \in SliderNames : InitSliders[s].rect = slider.rect /\ InitSliders[s].value # slider.value

\* C7: update() returns true exactly when the value it stores differs from
\* the value held before by more than the epsilon; a held pointer that
\* stays where it was in the call before yields false.
C7_ChangedSignal ==
    /\ [](call.made => (call.changed <=> Abs(slider.value - call.before.value) > EPSILON))
    /\ [][(call.made /\ call.down /\ call'.down /\ call'.m_vec = call.m_vec) => ~call'.changed]_vars

\* a call stored a different value and returned false
C7_Witness == call.made /\ slider.value # call.before.value /\ ~call.changed

\* C8: after every regeneration and at every render call the buffer has
\* steps + 1 points, steps being the count the renderer iterates with, so
\* the indices 0..steps are the buffer's indices.
C8_BufferLength == frame > 0 => Len(vertex_buffer) = steps + 1 /\ DOMAIN vertex_buffer = 1..(steps + 1)

\* a frame rendered with a step count of 1 and a buffer of 2 points
C8_Witness == frame > 0 /\ steps = 1 /\ Len(vertex_buffer) = 2

\* C9: after every regeneration the first point of the buffer is (a, 0) and
\* the point at index steps is (0, b), a and b the semi-major and semi-minor
\* slider values of the frame, whatever the exponent.
C9_BoundaryExactness ==
    regenerations = 1 =>
        /\ vertex_buffer[1] = <<sliders.r_a_slider.value, 0>>
        /\ vertex_buffer[steps + 1] = <<0, sliders.r_b_slider.value>>

\* a regeneration with the smallest exponent parameter, interior points and
\* semi-axes that differ
C9_Witness ==
    /\ regenerations = 1
    /\ sliders.n_slider.value = sliders.n_slider.min
    /\ steps > 1
    /\ sliders.r_a_slider.value # sliders.r_b_slider.value

\* C10: at every regeneration the roundedness value and the exponent 2 / n
\* computed from it are strictly positive and the step count is at least 1.
C10_GeneratorPreconditions ==
    regenerations = 1 =>
        /\ sliders.n_slider.value > 0
        /\ fdiv(F(2), sliders.n_slider.value) > 0
        /\ steps >= 1
        /\ steps = AsUsize(sliders.steps_slider.value)

\* a regeneration with the steps slider at the lower end of its range and
\* the roundedness slider at the lower end of its range
C10_Witness ==
    /\ regenerations = 1
    /\ sliders.steps_slider.value = sliders.steps_slider.min
    /\ sliders.n_slider.value = sliders.n_slider.min

-----------------------------------------------------------------------------
(* Properties of construction, the frame loop and the renderer *)

\* C11: a slider with max == min is rejected when it is constructed, so
\* no constructed slider, and no slider that update() is applied to, has
\* max == min.
C11_ZeroWidthRejected == slider.max # slider.min /\ (call.made => call.before.max # call.before.min)

\* C12: a press of the fill key inverts the fill flag, and a frame without
\* a press leaves it; a frame after the first with a press and no slider
\* value set leaves the vertex buffer, the step count, the rotation
\* transform and the stale flag as they were and regenerates nothing; and
\* the (prev, curr) pairs of the frame's drawing calls are the same with
\* fill on as with fill off.
C12_FillToggleIsolation ==
    /\ [][fill' = (IF key_pressed' THEN ~fill ELSE fill)]_vars
    /\ [][(frame > 0 /\ key_pressed' /\ sliders' = sliders) =>
             (UNCHANGED <<vertex_buffer, steps, rotation_matrix_trig_values, vertices_need_recalculation>> /\ regenerations' = 0)]_vars
    /\ [](frame > 0 =>
             drawn_pairs(draw_shape(TRUE, steps, vertex_buffer, rotation_matrix_trig_values, sliders.thickness_slider.value))
               = drawn_pairs(draw_shape(FALSE, steps, vertex_buffer, rotation_matrix_trig_values, sliders.thickness_slider.value)))

\* the key was pressed in a later frame and turned fill off again
C12_Witness == frame > 1 /\ key_pressed /\ ~fill /\ Len(shape_draws) > 0

\* the transform of the render call as the specification words it:
\* reflection by the signs of a table entry, then rotation by (sin, cos),
\* then translation by the centre
Reflected(v, q) == <<q[1] * v[1], q[2] * v[2]>>

Rotated(v, m) == <<trig_mul(m[2], v[1]) - trig_mul(m[1], v[2]), trig_mul(m[1], v[1]) + trig_mul(m[2], v[2])>>

Translated(v, c) == <<v[1] + c[1], v[2] + c[2]>>

T(v, q) == Translated(Rotated(Reflected(v, q), rotation_matrix_trig_values), centre)

\* C13: the render call of a frame invokes the draw operation 4 * steps
\* times; the invocation number (k - 1) * steps + i, for the k-th table
\* entry and i = 1..steps, receives (T(buffer[i-1]), T(buffer[i])) with
\* the signs of that entry.
C13_RenderSequence ==
    frame > 0 =>
        \E calls \in {render_calls} :
            /\ Len(calls) = 4 * steps
            /\ \A k \in 1..4, i \in 1..steps :
                   calls[(k - 1) * steps + i] = <<T(vertex_buffer[i], quadrants[k]), T(vertex_buffer[i + 1], quadrants[k])>>

\* a render call with more than one step per quadrant and a rotation that
\* is not the identity
C13_Witness == frame > 0 /\ steps > 1 /\ rotation_matrix_trig_values[1] # 0 /\ Len(render_calls) = 4 * steps

\* the four images of a point the specification lists, in table order
FourImages(v) == <<<<v[1], v[2]>>, <<-v[1], v[2]>>, <<-v[1], -v[2]>>, <<v[1], -v[2]>>>>

\* the point the k-th pass of the render call produced for buffer[j - 1]
\* (the first one as prev of the pass's first invocation, the others as curr)
Produced(calls, k, j) == IF j = 1 THEN calls[(k - 1) * steps + 1][1] ELSE calls[(k - 1) * steps + j - 1][2]

C15_EverySliderPolled == frame > 0 => \A s \in SliderNames : polled[s].called

\* (sin, cos) of an angle given in degrees
SinCosOfDegrees(theta) == sin_cos(MulDiv(fdiv(fmul(theta, PI), F(180)), UQ, VQ))

\* C16: in every frame the (sin, cos) pair used for rendering is
\* (sin, cos) of the rotation slider's value in degrees; it is the identity
\* (0, 1) as long as the rotation slider has not been moved; and it changes
\* only in a frame in which the rotation slider reported changed.
C16_RotationCoherence ==
    /\ [](rotation_matrix_trig_values = SinCosOfDegrees(sliders.rotation_slider.value))
    /\ [](sliders.rotation_slider.value = InitSliders.rotation_slider.value => rotation_matrix_trig_values = <<0, UQ>>)
    /\ [][rotation_matrix_trig_values' # rotation_matrix_trig_values => polled'.rotation_slider.changed]_vars

\* the rotation slider was moved in an earlier frame and keeps its pair in
\* a frame in which it reports no change
C16_Witness ==
    /\ frame > 1
    /\ sliders.rotation_slider.value # InitSliders.rotation_slider.value
    /\ ~polled.rotation_slider.changed
    /\ rotation_matrix_trig_values # <<0, UQ>>

\* first and last point of the k-th quadrant chain of a render call
ChainFirst(calls, k) == calls[(k - 1) * steps + 1][1]

ChainLast(calls, k) == calls[k * steps][2]

\* the points that are an end of some segment of a render call
Endpoints(calls) == {calls[j][1] : j \in 1..Len(calls)} \cup {calls[j][2] : j \in 1..Len(calls)}

\* C17 as stated: within a quadrant each invocation's prev is the preceding
\* invocation's curr; the chains of entries 1 and 4 start on the image of
\* (a, 0), those of entries 2 and 3 on the image of (-a, 0), the chains of
\* entries 1 and 2 end on the image of (0, b), those of entries 3 and 4 on
\* the image of (0, -b); and every segment endpoint is shared by exactly
\* two segments: with the chaining above that is 4 * steps segments on
\* 4 * steps distinct points.
C17_ClosedCurve ==
    frame > 0 =>
        \E calls \in {render_calls} :
        \E a \in {vertex_buffer[1][1]}, b \in {vertex_buffer[steps + 1][2]} :
            /\ \A k \in 1..4, i \in 2..steps : calls[(k - 1) * steps + i][1] = calls[(k - 1) * steps + i - 1][2]
            /\ ChainFirst(calls, 1) = T(<<a, 0>>, <<1, 1>>) /\ ChainFirst(calls, 4) = ChainFirst(calls, 1)
            /\ ChainFirst(calls, 2) = T(<<-a, 0>>, <<1, 1>>) /\ ChainFirst(calls, 3) = ChainFirst(calls, 2)
            /\ ChainLast(calls, 1) = T(<<0, b>>, <<1, 1>>) /\ ChainLast(calls, 2) = ChainLast(calls, 1)
            /\ ChainLast(calls, 3) = T(<<0, -b>>, <<1, 1>>) /\ ChainLast(calls, 4) = ChainLast(calls, 3)
            /\ Cardinality(Endpoints(calls)) = 4 * steps

\* C17, amended: the chaining within a quadrant and the four coincidences
\* on the images of (a, 0), (-a, 0), (0, b) and (0, -b) as above; so every
\* segment endpoint is shared by at least two segments: a point that no
\* segment ends on is the start of two or more, a point that no segment
\* starts on is the end of two or more, and any other point is the end of
\* one and the start of another.  (An endpoint can belong to more than two
\* segments: for small n the vertices next to an axis lie on it, and the
\* chains of the two quadrants beside that axis share them.)
C17_ClosedCurveAmended ==
    frame > 0 =>
        \E calls \in {render_calls} :
        \E a \in {vertex_buffer[1][1]}, b \in {vertex_buffer[steps + 1][2]} :
            /\ \A k \in 1..4, i \in 2..steps : calls[(k - 1) * steps + i][1] = calls[(k - 1) * steps + i - 1][2]
            /\ ChainFirst(calls, 1) = T(<<a, 0>>, <<1, 1>>) /\ ChainFirst(calls, 4) = ChainFirst(calls, 1)
            /\ ChainFirst(calls, 2) = T(<<-a, 0>>, <<1, 1>>) /\ ChainFirst(calls, 3) = ChainFirst(calls, 2)
            /\ ChainLast(calls, 1) = T(<<0, b>>, <<1, 1>>) /\ ChainLast(calls, 2) = ChainLast(calls, 1)
            /\ ChainLast(calls, 3) = T(<<0, -b>>, <<1, 1>>) /\ ChainLast(calls, 4) = ChainLast(calls, 3)
            /\ \E starts \in {{calls[j][1] : j \in 1..Len(calls)}}, ends \in {{calls[j][2] : j \in 1..Len(calls)}} :
                   /\ \A p \in starts \ ends : Cardinality({j \in 1..Len(calls) : calls[j][1] = p}) >= 2
                   /\ \A p \in ends \ starts : Cardinality({j \in 1..Len(calls) : calls[j][2] = p}) >= 2

\* a curve of several steps per quadrant of which the first and the fourth
\* chain share the vertex after their common first point
C17_Witness ==
    /\ frame > 1
    /\ steps > 2
    /\ render_calls[1][2] = render_calls[3 * steps + 1][2]

\* product of two coordinates, scaled down to stay in range
SignedProduct(a, b) == IF (a < 0) = (b < 0) THEN MulDiv(Abs(a), Abs(b), 2 * VQ) ELSE -MulDiv(Abs(a), Abs(b), 2 * VQ)

\* the turn of an invocation about the centre: the cross product of
\* prev - centre and curr - centre; its sign is the rotational sense
Turn(call_) ==
    SignedProduct(call_[1][1] - centre[1], call_[2][2] - centre[2]) - SignedProduct(call_[1][2] - centre[2], call_[2][1] - centre[1])

\* what the rounding of the rotated coordinates can add to or take from a turn
Slack(call_) ==
    (Abs(call_[1][1] - centre[1]) + Abs(call_[1][2] - centre[2]) + Abs(call_[2][1] - centre[1]) + Abs(call_[2][2] - centre[2])) \div VQ + 4

\* C18 as stated: every invocation of a render call turns about the centre
\* in the same rotational sense, whatever its quadrant.
C18_TraversalDirection ==
    frame > 0 =>
        \E calls \in {render_calls} :
        \E sense \in {1, -1} :
            \A j \in 1..Len(calls) : sense * Turn(calls[j]) >= -Slack(calls[j])

\* the rotational sense of the k-th chain: that of the first quadrant for
\* entries 1 and 3, the opposite one for the mirrored entries 2 and 4
Sense(k) == IF k \in {1, 3} THEN 1 ELSE -1

\* C18, amended: no invocation of the k-th chain turns against Sense(k),
\* and the chain as a whole, from its first to its last point, turns in the
\* sense Sense(k): the chains of entries 1 and 3 run one way about the
\* centre, those of entries 2 and 4 the other way.
C18_TraversalDirectionAmended ==
    frame > 0 =>
        \E calls \in {render_calls} :
            /\ \A k \in 1..4, i \in 1..steps :
                   Sense(k) * Turn(calls[(k - 1) * steps + i]) >= -Slack(calls[(k - 1) * steps + i])
            /\ \A k \in 1..4 :
                   Sense(k) * Turn(<<ChainFirst(calls, k), ChainLast(calls, k)>>) > Slack(<<ChainFirst(calls, k), ChainLast(calls, k)>>)

\* a rotated curve whose first invocation of the first chain and first
\* invocation of the second chain turn in opposite senses
C18_Witness ==
    /\ frame > 0
    /\ steps > 1
    /\ rotation_matrix_trig_values[1] # 0
    /\ Turn(render_calls[1]) > Slack(render_calls[1])
    /\ Turn(render_calls[steps + 1]) < -Slack(render_calls[steps + 1])

\* the place of a step in the order the specification gives
StepRank(e) ==
    CASE e.step \in {"update", "is_key_pressed"} -> 1
      [] e.step = "regenerate" -> 2
      [] e.step = "clear_background" -> 3
      [] e.step = "curve_draw" -> 4
      [] e.step = "slider_draw" -> 5
      [] e.step = "draw_text" -> 6
      [] e.step = "next_frame" -> 7

\* the positions of a trace that hold a step of the given kind
StepsOf(trace, kind) == {i \in 1..Len(trace) : trace[i].step = kind}

\* C19: the steps of every frame occur in the order input polling,
\* regeneration, background clear, curve draws, slider draws; the
\* regeneration occurs only in a stale frame (the first one, or one in
\* which a geometry slider reported a change); the background is cleared
\* once, all 4 * steps curve draws and all six slider draws occur, and no
\* curve draw or clear follows a slider draw; the frame yields once, as
\* its last step.
C19_FrameStepOrder ==
    frame > 0 =>
        \E trace \in {frame_steps} :
            /\ \A i \in 1..(Len(trace) - 1) : StepRank(trace[i]) <= StepRank(trace[i + 1])
            /\ StepsOf(trace, "regenerate") # {} =>
                   (frame = 1 \/ \E i \in 1..Len(GeometrySliders) : polled[GeometrySliders[i]].changed)
            /\ Cardinality(StepsOf(trace, "clear_background")) = 1
            /\ Cardinality(StepsOf(trace, "curve_draw")) = 4 * steps
            /\ Cardinality(StepsOf(trace, "slider_draw")) = 6
            /\ \A i \in StepsOf(trace, "slider_draw"), j \in StepsOf(trace, "curve_draw") \cup StepsOf(trace, "clear_background") : j < i
            /\ StepsOf(trace, "next_frame") = {Len(trace)}

\* a later frame that polled all six sliders, regenerated and drew a filled curve
C19_Witness ==
    /\ frame > 1
    /\ regenerations = 1
    /\ fill
    /\ Len(frame_steps) = 7 + 1 + 1 + 4 * steps + 6 + 1 + 1

\* C20: no pointer position lies in the interaction region of more than
\* one slider, and in no frame does more than one slider report a changed
\* value.
C20_DisjointRegions ==
    /\ \A x \in DrawXs, y \in DrawYs :
           Cardinality({s \in SliderNames : Rect_contains(interaction_area(sliders[s]), <<x, y>>, rect_edges_closed)}) <= 1
    /\ Cardinality({s \in SliderNames : polled[s].changed}) <= 1

====
